---- MODULE Spec2Model ----
(***************************************************************************)
(* Route network path planner (route_network/planner.py).                  *)
(*                                                                         *)
(* A Planner is built from one RouteNetwork message: it indexes the way    *)
(* points, and turns every route segment whose two end points resolve      *)
(* into an Edge of the adjacency list.  planner(req) validates a           *)
(* GetRoutePlan request and runs a best-first search from start to goal.   *)
(* Python lists that the code indexes by way point number (edges, closed,  *)
(* backpath) are functions over 0..n-1; message lists (points, segments,   *)
(* open) are sequences.                                                    *)
(***************************************************************************)
EXTENDS Integers, Sequences, FiniteSets, TLC

\* ------------------------------------------------------------------ bounds
\* Most way points in a route network of the general family.
MaxPoints == 3
\* Most segments in a route network of the general family.
MaxSegs == 2
\* Way points and segments of the forward-only family (see ForwardNetworks).
ForwardPoints == 4
ForwardSegs == 4
\* Most way points and segments of a network of the rebuild family.
RebuildPoints == 2
RebuildSegs == 1
MaxTicks == 2

\* -------------------------------------------------------------- universes
WayPointIds == <<"a", "b", "c", "d", "e", "f", "g">>
SegmentIds == <<"s1", "s2", "s3", "s4", "s5", "s6", "s7">>
GraphIds == {"net1"}
NetworkIds == {"net1", "net2"}

\* Python's None, where the code stores it in place of a way point index.
None == 0 - 1

\* ------------------------------------------------------- geodesy.wu_point
\* Planar position of the way point listed at 1-based place i.  Two
\* layouts: evenly spaced on a line, and a 3-4-5 right triangle whose far
\* corner holds every way point from the third on.
Position(layout, i) ==
    IF layout = "line" THEN <<3 * (i - 1), 0>>
    ELSE IF i = 1 THEN <<0, 0>>
    ELSE IF i = 2 THEN <<3, 0>>
    ELSE <<3, 4>>

Layouts == {"line", "triangle"}

\* Integer square root; exact on the perfect squares the layouts produce.
ISqrt(n) == CHOOSE r \in 0..n : r * r <= n /\ (r + 1) * (r + 1) > n

\* WuPointSet(graph.points): the uuid -> index dictionary and the points.
WuPointSet(points) ==
    [way_point_ids |-> [u \in {points[i].uuid : i \in DOMAIN points} |->
                          (CHOOSE i \in DOMAIN points : points[i].uuid = u) - 1],
     points |-> points]

\* WuPointSet.index(uuid): the index of the way point, or None.
index(wps, uuid) ==
    IF uuid \in DOMAIN wps.way_point_ids THEN wps.way_point_ids[uuid] ELSE None

\* len(self.points)
len(wps) == Len(wps.points)

\* WuPointSet.distance2D(i, n): planar Euclidean distance.
distance2D(wps, i, n) ==
    LET p == wps.points[i + 1]
        q == wps.points[n + 1]
        dx == p.x - q.x
        dy == p.y - q.y
    IN  ISqrt(dx * dx + dy * dy)

\* ------------------------------------------------------------------- Edge
Edge(end, heuristic) == [end |-> end, h |-> heuristic]

\* ------------------------------------------------------- Planner.__init__
\* Variant: construction stops at the first segment that does not resolve.
RECURSIVE AddSegmentsAbort(_, _, _)
AddSegmentsAbort(segs, wps, edges) ==
    IF segs = <<>> THEN edges
    ELSE LET seg == Head(segs)
             i == index(wps, seg.start)
             n == index(wps, seg.end)
         IN  IF i # None /\ n # None
             THEN AddSegmentsAbort(Tail(segs), wps,
                      [edges EXCEPT ![i] = Append(@, Edge(n, distance2D(wps, i, n)))])
             ELSE edges

\* Variant: a segment parallel to an edge already present adds no edge.
RECURSIVE AddSegmentsDedup(_, _, _)
AddSegmentsDedup(segs, wps, edges) ==
    IF segs = <<>> THEN edges
    ELSE LET seg == Head(segs)
             i == index(wps, seg.start)
             n == index(wps, seg.end)
         IN  IF i # None /\ n # None /\ (\A k \in DOMAIN edges[i] : edges[i][k].end # n)
             THEN AddSegmentsDedup(Tail(segs), wps,
                      [edges EXCEPT ![i] = Append(@, Edge(n, distance2D(wps, i, n)))])
             ELSE AddSegmentsDedup(Tail(segs), wps, edges)

\* The loop over graph.segments, applied to the segments not yet visited.
RECURSIVE AddSegments(_, _, _)
AddSegments(segs, wps, edges) ==
    IF segs = <<>> THEN edges
    ELSE LET seg == Head(segs)
             i == index(wps, seg.start)
             n == index(wps, seg.end)
         IN  IF i # None /\ n # None
             THEN AddSegments(Tail(segs), wps,
                      [edges EXCEPT ![i] = Append(@, Edge(n, distance2D(wps, i, n)))])
             ELSE AddSegments(Tail(segs), wps, edges)

\* Planner(graph)
NewPlanner(graph) ==
    LET wps == WuPointSet(graph.points)
    IN  [loaded |-> TRUE,
         graph |-> graph,
         points |-> wps,
         edges |-> AddSegments(graph.segments, wps,
                               [wid \in 0..(len(wps) - 1) |-> <<>>])]

\* No route network received yet: there is no Planner object.
NoGraph == [id |-> "", points |-> <<>>, segments |-> <<>>]
NoPlanner ==
    [loaded |-> FALSE, graph |-> NoGraph, points |-> WuPointSet(<<>>),
     edges |-> [wid \in 0..(0 - 1) |-> <<>>]]

\* ---------------------------------------------------------------- inputs
PointList(n, layout) ==
    [i \in 1..n |-> [uuid |-> WayPointIds[i],
                     x |-> Position(layout, i)[1],
                     y |-> Position(layout, i)[2]]]

\* Sequences over S of length at most n.
RECURSIVE SeqsUpTo(_, _)
SeqsUpTo(S, n) ==
    IF n = 0 THEN {<<>>}
    ELSE LET shorter == SeqsUpTo(S, n - 1)
         IN  shorter \cup {Append(s, x) : s \in {t \in shorter : Len(t) = n - 1}, x \in S}

SegmentList(pairs) ==
    [k \in 1..Len(pairs) |-> [id |-> SegmentIds[k],
                              start |-> pairs[k][1], end |-> pairs[k][2]]]

\* uuids a message of the general family may name: the way points of its
\* largest network.  In a smaller network the others are unknown way points.
KnownIds == {WayPointIds[i] : i \in 1..MaxPoints}

\* General family: 1..MaxPoints way points on the triangle layout, up to
\* MaxSegs segments between any two uuids (self loops, parallel segments,
\* and in the smaller networks dangling references).
GeneralNetworks ==
    {[id |-> nid, points |-> PointList(n, "triangle"), segments |-> SegmentList(pairs)] :
        nid \in GraphIds, n \in 1..MaxPoints,
        pairs \in SeqsUpTo(KnownIds \X KnownIds, MaxSegs)}

\* Forward-only family: ForwardPoints way points, up to ForwardSegs
\* segments, each from a way point to one listed later.
ForwardPairs ==
    {<<WayPointIds[p[1]], WayPointIds[p[2]]>> :
        p \in {q \in (1..ForwardPoints) \X (1..ForwardPoints) : q[1] < q[2]}}

ForwardNetworks ==
    {[id |-> nid, points |-> PointList(ForwardPoints, layout),
      segments |-> SegmentList(pairs)] :
        nid \in GraphIds, layout \in Layouts,
        pairs \in SeqsUpTo(ForwardPairs, ForwardSegs)}

ForwardIds == {WayPointIds[i] : i \in 1..ForwardPoints}

\* Rebuild family: as the general family, within its own bounds.
RebuildIds == {WayPointIds[i] : i \in 1..RebuildPoints}

RebuildNetworks ==
    {[id |-> nid, points |-> PointList(n, "triangle"), segments |-> SegmentList(pairs)] :
        nid \in GraphIds, n \in 1..RebuildPoints,
        pairs \in SeqsUpTo(RebuildIds \X RebuildIds, RebuildSegs)}

RebuildRequests == [network : GraphIds, start : RebuildIds, goal : RebuildIds]

\* Small family with cycles: RebuildPoints way points and up to MaxSegs
\* segments between them (self loops, two-way and parallel segments).
CyclicNetworks ==
    {[id |-> nid, points |-> PointList(RebuildPoints, "triangle"),
      segments |-> SegmentList(pairs)] :
        nid \in GraphIds,
        pairs \in SeqsUpTo(RebuildIds \X RebuildIds, MaxSegs)}

\* Scenario: way points A(0,0), B(3,0), C(3,4) and the three segments A -> B,
\* B -> C, A -> C, listed in any order.
ScenarioPairs == {<<"a", "b">>, <<"b", "c">>, <<"a", "c">>}

ScenarioNetworks ==
    {[id |-> nid, points |-> PointList(Cardinality(ScenarioPairs), "triangle"),
      segments |-> SegmentList(pairs)] :
        nid \in GraphIds,
        pairs \in {q \in SeqsUpTo(ScenarioPairs, Cardinality(ScenarioPairs)) :
                      {q[k] : k \in DOMAIN q} = ScenarioPairs}}

\* The weights the scenario gives its segments: 3 for A -> B, 4 for B -> C
\* and 6 for A -> C.
ScenarioWeight(i, n) ==
    IF i = 0 /\ n = 1 THEN 3
    ELSE IF i = 1 /\ n = 2 THEN 4
    ELSE 6

\* The Planner of a scenario network, each edge with the scenario's weight.
ScenarioPlanner(graph) ==
    LET p == NewPlanner(graph)
    IN  [p EXCEPT !.edges =
            [i \in DOMAIN p.edges |->
                [k \in DOMAIN p.edges[i] |->
                    Edge(p.edges[i][k].end, ScenarioWeight(i, p.edges[i][k].end))]]]

\* GetRoutePlan requests.
Requests == [network : NetworkIds, start : KnownIds, goal : KnownIds]
ForwardRequests == [network : GraphIds, start : ForwardIds, goal : ForwardIds]

\* ------------------------------------------------------------------ state
VARIABLES
    planner,    \* the Planner built from the last route network
    pc,         \* "idle", "loop" (in the search loop), "returned", "raised"
    req,        \* the request being served
    start,      \* planner() locals ...
    goal,
    resp,
    open,
    closed,
    backpath,
    h,
    e,
    exc,        \* the exception raised, when pc = "raised"
    order,      \* history: the [h, e] entries popped so far, in order
    prev,       \* history: request and outcome of the previous query
    self,       \* the Planner object planner() was called on
    snap,       \* history: that Planner as it was when planner() was called
    viz         \* the VizPlanNode: its fields, and what it has sent so far

vars == <<planner, pc, req, start, goal, resp, open, closed, backpath, h, e,
          exc, order, prev, self, snap, viz>>

frame == <<start, goal, resp, open, closed, backpath, h, e, order, self, snap>>

NoReq == [network |-> "", start |-> "", goal |-> ""]
NoResp == [network |-> "", segments |-> <<>>]
NoExc == [type |-> "", msg |-> <<>>]
NoPrev == [valid |-> FALSE, req |-> NoReq, pc |-> "idle", exc |-> NoExc,
           resp |-> NoResp, order |-> <<>>, backpath |-> <<>>, closed |-> <<>>]

\* RoutePath(network=...): the segment list of a new message is empty.
RoutePath(network) == [network |-> network, segments |-> <<>>]

ValueError(text, id) == [type |-> "ValueError", msg |-> <<text, id>>]
NoPathToGoalError == [type |-> "NoPathToGoalError", msg |-> <<"No path from start to goal.">>]
NotReady == [type |-> "NotReady", msg |-> <<"no RouteNetwork available">>]

\* VizPlanNode.__init__: no graph yet.  calls lists the plan requests sent,
\* marks counts the MarkerArrays published, ticks the timer callbacks run;
\* raised is the exception that ended rclpy.spin(), "" while it is running.
NewVizPlanNode ==
    [graph |-> NoGraph, points |-> WuPointSet(<<>>), segment_ids |-> <<>>,
     calls |-> <<>>, marks |-> 0, ticks |-> 0, raised |-> ""]

Init ==
    /\ planner = NoPlanner
    /\ pc = "idle"
    /\ req = NoReq
    /\ start = None
    /\ goal = None
    /\ resp = NoResp
    /\ open = <<>>
    /\ closed = <<>>
    /\ backpath = <<>>
    /\ h = 0
    /\ e = None
    /\ exc = NoExc
    /\ order = <<>>
    /\ prev = NoPrev
    /\ self = NoPlanner
    /\ snap = NoPlanner
    /\ viz = NewVizPlanNode

\* ------------------------------------------------------------ LoadNetwork
\* A route network arrives: a new Planner replaces the old one.
LoadNetwork(graph) ==
    /\ pc = "idle"
    /\ planner' = NewPlanner(graph)
    /\ prev' = NoPrev
    /\ UNCHANGED <<viz, pc, req, exc, frame>>

\* A scenario network arrives.
LoadScenario(graph) ==
    /\ pc = "idle"
    /\ planner' = ScenarioPlanner(graph)
    /\ prev' = NoPrev
    /\ UNCHANGED <<viz, pc, req, exc, frame>>

\* Variant: the Planner object in use is initialised again in place.
RebuildInPlace(graph) ==
    /\ pc = "loop"
    /\ planner' = NewPlanner(graph)
    /\ self' = NewPlanner(graph)
    /\ UNCHANGED <<viz, pc, req, exc, prev, start, goal, resp, open, closed, backpath,
                   h, e, order, snap>>

\* A route network arrives while planner() is in its loop: a new Planner is
\* constructed, with lists of its own, and replaces the one that new
\* requests are served by.  The call in progress keeps its self.
Rebuild(graph) ==
    /\ pc = "loop"
    /\ planner' = NewPlanner(graph)
    /\ UNCHANGED <<viz, pc, req, exc, prev, frame>>

\* -------------------------------------------------------- Planner.planner
\* Python's list comparison of two [h, e] entries.
Less(a, b) == a[1] < b[1] \/ (a[1] = b[1] /\ a[2] < b[2])

Remove(s, i) == SubSeq(s, 1, i - 1) \o SubSeq(s, i + 1, Len(s))

\* open.sort()
RECURSIVE sort(_)
sort(s) ==
    IF s = <<>> THEN <<>>
    ELSE LET i == CHOOSE i \in DOMAIN s : \A j \in DOMAIN s : ~Less(s[j], s[i])
         IN  <<s[i]>> \o sort(Remove(s, i))

\* Variant: the sorted list is left in ascending order.
reverseOmitted(s) == s

\* open.reverse()
reverse(s) == [i \in 1..Len(s) |-> s[Len(s) + 1 - i]]

\* Variant: the backpointer written is the end of the edge.
RECURSIVE ExpandSelfPointer(_, _, _, _)
ExpandSelfPointer(es, h1, e1, st) ==
    IF es = <<>> THEN st
    ELSE LET edge == Head(es)
             e2 == edge.end
         IN  IF ~st.closed[e2]
             THEN ExpandSelfPointer(Tail(es), h1, e1,
                      [open |-> Append(st.open, <<h1 + edge.h, e2>>),
                       closed |-> [st.closed EXCEPT ![e2] = TRUE],
                       backpath |-> [st.backpath EXCEPT ![e2] = e2]])
             ELSE ExpandSelfPointer(Tail(es), h1, e1, st)

\* Variant: the loop over the edges ends after the first edge.
ExpandFirstOnly(es, h1, e1, st) ==
    IF es = <<>> THEN st
    ELSE LET edge == Head(es)
             e2 == edge.end
         IN  IF ~st.closed[e2]
             THEN [open |-> Append(st.open, <<h1 + edge.h, e2>>),
                   closed |-> [st.closed EXCEPT ![e2] = TRUE],
                   backpath |-> [st.backpath EXCEPT ![e2] = e1]]
             ELSE st

\* Variant: an edge queues its end and rewrites its backpointer whether or
\* not the end is closed.
RECURSIVE ExpandAlways(_, _, _, _)
ExpandAlways(es, h1, e1, st) ==
    IF es = <<>> THEN st
    ELSE LET edge == Head(es)
             e2 == edge.end
         IN  ExpandAlways(Tail(es), h1, e1,
                 [open |-> Append(st.open, <<h1 + edge.h, e2>>),
                  closed |-> [st.closed EXCEPT ![e2] = TRUE],
                  backpath |-> [st.backpath EXCEPT ![e2] = e1]])

\* The loop over self.edges[e], applied to the edges not yet visited; st holds
\* open, closed and backpath.
RECURSIVE Expand(_, _, _, _)
Expand(es, h1, e1, st) ==
    IF es = <<>> THEN st
    ELSE LET edge == Head(es)
             e2 == edge.end
         IN  IF ~st.closed[e2]
             THEN Expand(Tail(es), h1, e1,
                      [open |-> Append(st.open, <<h1 + edge.h, e2>>),
                       closed |-> [st.closed EXCEPT ![e2] = TRUE],
                       backpath |-> [st.backpath EXCEPT ![e2] = e1]])
             ELSE Expand(Tail(es), h1, e1, st)

\* Variant: the goal is looked up before the start.
ValidateGoalFirst(p, r) ==
    IF r.network # p.graph.id
    THEN [type |-> "ValueError", msg |-> <<"invalid GetRoutePlan network: ", r.network>>]
    ELSE IF index(p.points, r.goal) = None
    THEN [type |-> "ValueError", msg |-> <<"unknown goal: ", r.goal>>]
    ELSE IF index(p.points, r.start) = None
    THEN [type |-> "ValueError", msg |-> <<"unknown starting point: ", r.start>>]
    ELSE NoExc

\* The request checks at the head of planner(req): the exception raised,
\* or NoExc when the request is accepted.
Validate(p, r) ==
    IF r.network # p.graph.id
    THEN ValueError("invalid GetRoutePlan network: ", r.network)
    ELSE IF index(p.points, r.start) = None
    THEN ValueError("unknown starting point: ", r.start)
    ELSE IF index(p.points, r.goal) = None
    THEN ValueError("unknown goal: ", r.goal)
    ELSE NoExc

\* Entry of planner(req) up to the search loop: the request is checked and
\* the search state initialised.
PlanRoute(r) ==
    /\ pc = "idle"
    /\ planner.loaded
    /\ req' = r
    /\ LET err == Validate(planner, r)
           n == len(planner.points)
       IN  IF err # NoExc
           THEN /\ exc' = err
                /\ pc' = "raised"
                \* start and goal are assigned as far as the checks got
                /\ start' = IF r.network # planner.graph.id THEN start
                            ELSE index(planner.points, r.start)
                /\ goal' = IF r.network # planner.graph.id
                              \/ index(planner.points, r.start) = None
                           THEN goal
                           ELSE index(planner.points, r.goal)
                /\ UNCHANGED <<resp, open, closed, backpath, h, e, order>>
           ELSE /\ start' = index(planner.points, r.start)
                /\ goal' = index(planner.points, r.goal)
                /\ resp' = RoutePath(planner.graph.id)
                /\ open' = <<<<0, index(planner.points, r.start)>>>>
                /\ closed' = [wid \in 0..(n - 1) |-> FALSE]
                /\ backpath' = [wid \in 0..(n - 1) |-> None]
                /\ e' = index(planner.points, r.start)
                /\ pc' = "loop"
                /\ UNCHANGED <<h, exc, order>>
    /\ self' = planner
    /\ snap' = planner
    /\ UNCHANGED <<viz, planner, prev>>

\* Variant: the request is looked up in the absent network.
PlanRouteNotReadyUnknown(r) ==
    /\ pc = "idle"
    /\ ~planner.loaded
    /\ req' = r
    /\ exc' = [type |-> "ValueError", msg |-> <<"unknown starting point: ", r.start>>]
    /\ pc' = "raised"
    /\ UNCHANGED <<viz, planner, prev, frame>>

\* A request while no route network has been received.
PlanRouteNotReady(r) ==
    /\ pc = "idle"
    /\ ~planner.loaded
    /\ req' = r
    /\ exc' = NotReady
    /\ pc' = "raised"
    /\ UNCHANGED <<viz, planner, prev, frame>>

\* Variant: an empty frontier ends the loop as if the goal had been reached.
BreakOnEmpty ==
    /\ pc' = "returned"
    /\ UNCHANGED <<exc, open, closed, backpath, h, e, order>>

\* Variant: an empty frontier starts the next iteration of the loop.
ContinueOnEmpty ==
    /\ pc' = "loop"
    /\ UNCHANGED <<exc, open, closed, backpath, h, e, order>>

\* The frontier is empty: raise NoPathToGoalError.
RaiseNoPath ==
    /\ exc' = NoPathToGoalError
    /\ pc' = "raised"
    /\ UNCHANGED <<open, closed, backpath, h, e, order>>

\* Variant: the goal test follows the expansion of the way point popped.
VisitExpandFirst ==
    LET sorted == reverse(sort(open))
        top == sorted[Len(sorted)]
        rest == SubSeq(sorted, 1, Len(sorted) - 1)
        st == Expand(self.edges[top[2]], top[1], top[2],
                     [open |-> rest, closed |-> closed, backpath |-> backpath])
    IN  /\ h' = top[1]
        /\ e' = top[2]
        /\ order' = Append(order, top)
        /\ open' = st.open
        /\ closed' = st.closed
        /\ backpath' = st.backpath
        /\ pc' = IF top[2] = goal THEN "returned" ELSE "loop"
        /\ UNCHANGED exc

\* sort, reverse, pop; then leave the loop at the goal or expand the edges
\* of the way point popped.
Visit ==
    \E sorted \in {reverse(sort(open))} :
    LET top == sorted[Len(sorted)]
        rest == SubSeq(sorted, 1, Len(sorted) - 1)
    IN  /\ h' = top[1]
        /\ e' = top[2]
        /\ order' = Append(order, top)
        /\ IF top[2] = goal
           THEN /\ open' = rest
                /\ pc' = "returned"
                /\ UNCHANGED <<closed, backpath>>
           ELSE \E st \in {Expand(self.edges[top[2]], top[1], top[2],
                                    [open |-> rest, closed |-> closed,
                                     backpath |-> backpath])} :
                    /\ open' = st.open
                    /\ closed' = st.closed
                    /\ backpath' = st.backpath
                    /\ pc' = "loop"
        /\ UNCHANGED exc

\* Variant: the edges of the way point popped are consumed.
LoopStepConsume ==
    /\ pc = "loop"
    /\ IF Len(open) = 0 THEN RaiseNoPath ELSE Visit
    /\ planner' = [planner EXCEPT !.edges =
                      [i \in DOMAIN planner.edges |->
                          IF i = e' THEN <<>> ELSE planner.edges[i]]]
    /\ self' = planner'
    /\ UNCHANGED <<viz, req, start, goal, resp, prev, snap>>

\* One iteration of the while loop.  Leaving the loop at the goal, planner()
\* returns resp as it was created.
LoopStep ==
    /\ pc = "loop"
    /\ IF Len(open) = 0 THEN RaiseNoPath ELSE Visit
    /\ UNCHANGED <<viz, planner, req, start, goal, resp, prev, self, snap>>

\* planner() has returned or raised: its locals are gone.
ClearFrame ==
    /\ pc' = "idle"
    /\ req' = NoReq
    /\ start' = None
    /\ goal' = None
    /\ resp' = NoResp
    /\ open' = <<>>
    /\ closed' = <<>>
    /\ backpath' = <<>>
    /\ h' = 0
    /\ e' = None
    /\ exc' = NoExc
    /\ order' = <<>>
    /\ self' = NoPlanner
    /\ snap' = NoPlanner

Reply ==
    /\ pc \in {"returned", "raised"}
    /\ ClearFrame
    /\ UNCHANGED <<viz, planner, prev>>

\* As Reply, and the outcome is remembered for comparison with the next query.
ReplyRecord ==
    /\ pc \in {"returned", "raised"}
    /\ ClearFrame
    /\ prev' = [valid |-> TRUE, req |-> req, pc |-> pc, exc |-> exc, resp |-> resp,
                order |-> order, backpath |-> backpath, closed |-> closed]
    /\ UNCHANGED <<viz, planner>>

\* --------------------------------------------------------- specifications
\* In each specification one route network is received, then requests are
\* served against it.
Next ==
    \/ ~planner.loaded /\ \E graph \in GeneralNetworks : LoadNetwork(graph)
    \/ \E r \in Requests : PlanRoute(r)
    \/ \E r \in Requests : PlanRouteNotReady(r)
    \/ LoopStep
    \/ Reply

Spec == Init /\ [][Next]_vars

\* Networks of the forward-only family.
NextForward ==
    \/ ~planner.loaded /\ \E graph \in ForwardNetworks : LoadNetwork(graph)
    \/ \E r \in ForwardRequests : PlanRoute(r)
    \/ \E r \in ForwardRequests : PlanRouteNotReady(r)
    \/ LoopStep
    \/ Reply

SpecForward == Init /\ [][NextForward]_vars

\* A client that repeats its request against the unchanged network.
NextRepeat ==
    \/ ~planner.loaded /\ \E graph \in GeneralNetworks : LoadNetwork(graph)
    \/ \E r \in Requests : (prev.valid => r = prev.req) /\ PlanRoute(r)
    \/ \E r \in Requests : (prev.valid => r = prev.req) /\ PlanRouteNotReady(r)
    \/ LoopStep
    \/ ReplyRecord

SpecRepeat == Init /\ [][NextRepeat]_vars

\* Route networks may arrive while a request is served, at most one per
\* request.
NextRebuild ==
    \/ ~planner.loaded /\ \E graph \in RebuildNetworks : LoadNetwork(graph)
    \/ \E r \in RebuildRequests : PlanRoute(r)
    \/ \E r \in RebuildRequests : PlanRouteNotReady(r)
    \/ planner = self /\ \E graph \in RebuildNetworks : Rebuild(graph)
    \/ LoopStep
    \/ Reply

SpecRebuild == Init /\ [][NextRebuild]_vars

\* The scenario networks.
NextScenario ==
    \/ ~planner.loaded /\ \E graph \in ScenarioNetworks : LoadScenario(graph)
    \/ \E r \in Requests : PlanRoute(r)
    \/ \E r \in Requests : PlanRouteNotReady(r)
    \/ LoopStep
    \/ Reply

SpecScenario == Init /\ [][NextScenario]_vars

\* ------------------------------------------------------------- properties
TypeOK ==
    /\ pc \in {"idle", "loop", "returned", "raised"}
    /\ planner.loaded \in BOOLEAN

Indices == 0..(len(planner.points) - 1)

\* The request passed the checks of planner(): the search was started.
Accepted == pc # "idle" /\ planner.loaded /\ Validate(planner, req) = NoExc

\* No search state exists.
NoSearch == open = <<>> /\ closed = <<>> /\ backpath = <<>> /\ order = <<>>

\* Way points reachable from the set S along directed edges.
RECURSIVE Closure(_, _)
Closure(edges, S) ==
    LET T == S \cup UNION {{edges[i][k].end : k \in DOMAIN edges[i]} : i \in S}
    IN  IF T = S THEN S ELSE Closure(edges, T)

Reachable(edges, s, g) == g \in Closure(edges, {s})

Min(S) == CHOOSE x \in S : \A y \in S : x <= y

\* Least total weight of a directed path from s to g of at most k edges;
\* None when there is none.
RECURSIVE BestCost(_, _, _, _)
BestCost(edges, s, g, k) ==
    IF s = g THEN 0
    ELSE IF k = 0 THEN None
    ELSE LET via == {<<edges[s][j].h, BestCost(edges, edges[s][j].end, g, k - 1)>> :
                        j \in DOMAIN edges[s]}
             costs == {c[1] + c[2] : c \in {d \in via : d[2] # None}}
         IN  IF costs = {} THEN None ELSE Min(costs)

\* The segment of the route network with identifier id (0 when none).
SegmentAt(id) ==
    IF \E k \in DOMAIN planner.graph.segments : planner.graph.segments[k].id = id
    THEN CHOOSE k \in DOMAIN planner.graph.segments : planner.graph.segments[k].id = id
    ELSE 0

\* ids is a non-empty sequence of segment identifiers forming a directed
\* path from way point index s to way point index g.
IsRoute(ids, s, g) ==
    /\ ids # <<>>
    /\ \A k \in DOMAIN ids : SegmentAt(ids[k]) # 0
    /\ LET seg(k) == planner.graph.segments[SegmentAt(ids[k])]
       IN  /\ index(planner.points, seg(1).start) = s
           /\ index(planner.points, seg(Len(ids)).end) = g
           /\ \A k \in 1..(Len(ids) - 1) : seg(k).end = seg(k + 1).start

\* C1: a successful query with start # goal returns a RoutePath whose segment
\* sequence is non-empty and is a connected directed path from the start way
\* point to the goal way point.
C1_ReturnedRouteConnects ==
    (pc = "returned" /\ start # goal) => IsRoute(resp.segments, start, goal)

\* C2: when the goal is popped and the search stops, its cumulative cost is
\* the least total weight of any directed path from start to goal.
C2_GoalCostIsMinimal ==
    pc = "returned" =>
        h = BestCost(planner.edges, start, goal, len(planner.points))

\* C3: when the goal is not reachable from the start along directed edges and
\* start # goal, the goal is never queued or popped, the query never returns,
\* it pops at most one entry more than there are way points, and it ends by
\* raising NoPathToGoalError on an empty frontier.
C3_UnreachableGoalRaises ==
    (Accepted /\ start # goal /\ ~Reachable(planner.edges, start, goal)) =>
        /\ pc # "returned"
        /\ Len(order) <= len(planner.points) + 1
        /\ \A k \in DOMAIN order : order[k][2] # goal
        /\ \A k \in DOMAIN open : open[k][2] # goal
        /\ pc = "raised" => (exc = NoPathToGoalError /\ open = <<>>)

C3_Witness ==
    /\ pc = "raised"
    /\ exc = NoPathToGoalError
    /\ start # goal
    /\ ~Reachable(planner.edges, start, goal)
    /\ Len(order) >= 2

\* C4: a query whose start is its goal never raises; it returns at the first
\* pop with an empty segment sequence and without expanding any neighbour,
\* whatever edges leave or enter the way point.
C4_StartIsGoalReturnsEmpty ==
    (Accepted /\ start = goal) =>
        /\ pc # "raised"
        /\ pc = "loop" => order = <<>>
        /\ pc = "returned" =>
              /\ resp = [network |-> planner.graph.id, segments |-> <<>>]
              /\ order = <<<<0, start>>>>
              /\ open = <<>>
              /\ \A wid \in Indices : ~closed[wid] /\ backpath[wid] = None

C4_Witness ==
    /\ pc = "returned"
    /\ start = goal
    /\ \E k \in DOMAIN planner.edges[start] : planner.edges[start][k].end = start
    /\ \E k \in DOMAIN planner.edges[start] : planner.edges[start][k].end # start

\* C5: the request is checked before any search state is created: a network
\* id other than the loaded one raises the invalid-network error whatever
\* start and goal are; otherwise an unknown start raises the unknown-start
\* error naming it, whatever the goal is; otherwise an unknown goal raises
\* the unknown-goal error naming it.
C5_ChecksInOrder ==
    (pc # "idle" /\ planner.loaded) =>
        LET badNetwork == req.network # planner.graph.id
            badStart == req.start \notin {planner.graph.points[i].uuid :
                                            i \in DOMAIN planner.graph.points}
            badGoal == req.goal \notin {planner.graph.points[i].uuid :
                                            i \in DOMAIN planner.graph.points}
        IN  /\ badNetwork =>
                  /\ pc = "raised" /\ NoSearch
                  /\ exc = [type |-> "ValueError",
                            msg |-> <<"invalid GetRoutePlan network: ", req.network>>]
            /\ (~badNetwork /\ badStart) =>
                  /\ pc = "raised" /\ NoSearch
                  /\ exc = [type |-> "ValueError",
                            msg |-> <<"unknown starting point: ", req.start>>]
            /\ (~badNetwork /\ ~badStart /\ badGoal) =>
                  /\ pc = "raised" /\ NoSearch
                  /\ exc = [type |-> "ValueError",
                            msg |-> <<"unknown goal: ", req.goal>>]
            /\ (~badNetwork /\ ~badStart /\ ~badGoal) =>
                  (pc = "raised" => exc.type # "ValueError")

C5_Witness ==
    /\ pc = "raised"
    /\ planner.loaded
    /\ req.network = planner.graph.id
    /\ index(planner.points, req.start) = None
    /\ index(planner.points, req.goal) = None
    /\ req.start # req.goal

\* C6: a request served while no route network has been loaded raises the
\* not-ready failure, which is none of the other failures, creates no search
\* state and leaves the planner as it was.
C6_NotReadyBeforeLoad ==
    (pc # "idle" /\ ~planner.loaded) =>
        /\ pc = "raised"
        /\ exc.type = "NotReady"
        /\ exc.type \notin {"ValueError", "NoPathToGoalError"}
        /\ NoSearch
        /\ planner = NoPlanner

C6_Witness == pc = "raised" /\ ~planner.loaded /\ req.start # req.goal

\* uuid u names a way point of the loaded route network.
Resolves(u) ==
    \E i \in DOMAIN planner.graph.points : planner.graph.points[i].uuid = u

\* 0-based place of the way point named u in the point list.
PlaceOf(u) ==
    (CHOOSE i \in DOMAIN planner.graph.points : planner.graph.points[i].uuid = u) - 1

\* The segments leaving way point i whose end resolves too, in list order.
SegmentsFrom(i) ==
    LET Leaves(seg) == /\ Resolves(seg.start) /\ Resolves(seg.end)
                       /\ PlaceOf(seg.start) = i
    IN  SelectSeq(planner.graph.segments, Leaves)

\* A Planner has been constructed and no query is running on it.
Constructed == planner.loaded /\ pc = "idle"

\* C7: construction completes whatever the segments refer to: a segment with
\* an unresolvable start or end adds no edge, and every other segment, before
\* or after it in the list, adds its edge to its start way point's entry.
C7_DanglingSegmentsSkipped ==
    Constructed =>
        /\ DOMAIN planner.edges = Indices
        /\ \A i \in Indices :
              /\ Len(planner.edges[i]) = Len(SegmentsFrom(i))
              /\ \A k \in DOMAIN planner.edges[i] :
                    planner.edges[i][k].end = PlaceOf(SegmentsFrom(i)[k].end)

C7_Witness ==
    /\ Constructed
    /\ Len(planner.graph.segments) = 2
    /\ ~Resolves(planner.graph.segments[1].end)
    /\ Resolves(planner.graph.segments[2].start)
    /\ Resolves(planner.graph.segments[2].end)

\* Number of resolvable segments from way point i to way point j.
SegmentCount(i, j) ==
    Cardinality({k \in DOMAIN planner.graph.segments :
        LET seg == planner.graph.segments[k]
        IN  /\ Resolves(seg.start) /\ Resolves(seg.end)
            /\ PlaceOf(seg.start) = i /\ PlaceOf(seg.end) = j})

EdgeCount(i, j) ==
    Cardinality({k \in DOMAIN planner.edges[i] : planner.edges[i][k].end = j})

RECURSIVE Sum(_, _)
Sum(f, S) ==
    IF S = {} THEN 0
    ELSE LET x == CHOOSE y \in S : TRUE IN f[x] + Sum(f, S \ {x})

\* C8: after construction the adjacency list has one entry per way point index; for every pair
\* i, j it holds as many edges i -> j as there are resolvable segments from i
\* to j (parallel and self-loop segments each keep their own edge), so the
\* total number of edges is the number of resolvable segments.
C8_OneEdgePerResolvableSegment ==
    Constructed =>
        /\ DOMAIN planner.edges = Indices
        /\ \A i, j \in Indices : EdgeCount(i, j) = SegmentCount(i, j)
        /\ Sum([i \in Indices |-> Len(planner.edges[i])], Indices) =
           Cardinality({k \in DOMAIN planner.graph.segments :
               /\ Resolves(planner.graph.segments[k].start)
               /\ Resolves(planner.graph.segments[k].end)})

C8_Witness ==
    /\ Constructed
    /\ \E i \in Indices : EdgeCount(i, i) = 2

\* C9: every step of a query - accepting or rejecting the request, each loop
\* iteration, the reply - leaves the planner (route network, way point index,
\* adjacency list) as it was, and a query that starts searching starts from a
\* frontier holding only the start, nothing settled and no backpointer.
C9_QueryLeavesPlannerUnchanged ==
    [][(pc # "idle" \/ pc' # "idle") =>
          /\ planner' = planner
          /\ (pc = "idle" /\ pc' = "loop") =>
                /\ open' = <<<<0, start'>>>>
                /\ order' = <<>>
                /\ \A wid \in Indices : ~closed'[wid] /\ backpath'[wid] = None]_vars

C9_Witness ==
    /\ pc = "returned"
    /\ Len(order) = 3
    /\ \E wid \in Indices : closed[wid]

\* C10: a query repeated with the same request against the unchanged network
\* ends as the first did: same return or exception, same response, same pop
\* order, same settled marks and same backpointers.
C10_RepeatedQuerySameOutcome ==
    (pc \in {"returned", "raised"} /\ prev.valid /\ req = prev.req) =>
        /\ pc = prev.pc
        /\ exc = prev.exc
        /\ resp = prev.resp
        /\ order = prev.order
        /\ closed = prev.closed
        /\ backpath = prev.backpath

C10_Witness ==
    /\ pc = "returned"
    /\ prev.valid
    /\ req = prev.req
    /\ Len(order) >= 2

\* The search loop run to its end on the adjacency list edges, from the
\* search state st.
RECURSIVE Search(_, _, _)
Search(edges, g, st) ==
    IF st.open = <<>> THEN [st EXCEPT !.pc = "raised"]
    ELSE LET sorted == reverse(sort(st.open))
             top == sorted[Len(sorted)]
             rest == SubSeq(sorted, 1, Len(sorted) - 1)
             popped == Append(st.order, top)
         IN  IF top[2] = g
             THEN [pc |-> "returned", open |-> rest, closed |-> st.closed,
                   backpath |-> st.backpath, order |-> popped]
             ELSE LET ex == Expand(edges[top[2]], top[1], top[2],
                                   [open |-> rest, closed |-> st.closed,
                                    backpath |-> st.backpath])
                  IN  Search(edges, g,
                          [pc |-> "loop", open |-> ex.open, closed |-> ex.closed,
                           backpath |-> ex.backpath, order |-> popped])

\* The end of an undisturbed search for the accepted request r on Planner p.
Outcome(p, r) ==
    LET n == len(p.points)
    IN  Search(p.edges, index(p.points, r.goal),
            [pc |-> "loop", open |-> <<<<0, index(p.points, r.start)>>>>,
             closed |-> [wid \in 0..(n - 1) |-> FALSE],
             backpath |-> [wid \in 0..(n - 1) |-> None],
             order |-> <<>>])

\* C11: a route network that arrives between the search steps of a query
\* does not touch the Planner the query was called on, and the query ends
\* exactly as an undisturbed search on that Planner ends.
C11_RebuildIsolation ==
    (pc # "idle" /\ snap.loaded) =>
        /\ self = snap
        /\ (pc \in {"returned", "raised"} /\ Validate(snap, req) = NoExc) =>
              LET o == Outcome(snap, req)
              IN  /\ pc = o.pc
                  /\ order = o.order
                  /\ open = o.open
                  /\ closed = o.closed
                  /\ backpath = o.backpath
                  /\ resp = [network |-> snap.graph.id, segments |-> <<>>]
                  /\ pc = "raised" => exc = NoPathToGoalError

C11_Witness ==
    /\ pc = "returned"
    /\ Len(order) >= 2
    /\ planner.edges # self.edges

\* C12: in the scenario network, whatever the order of its three segments,
\* the query from A to C pops A at cost 0, B at cost 3 and C at cost 6, and
\* ends with A as the backpointer of C: the path is the segment A -> C.
C12_ScenarioDirectEdge ==
    (pc = "returned" /\ req.start = "a" /\ req.goal = "c") =>
        /\ h = 6
        /\ e = 2
        /\ backpath[2] = 0
        /\ order = <<<<0, 0>>, <<3, 1>>, <<6, 2>>>>

C12_Witness ==
    /\ pc = "returned"
    /\ req.start = "a"
    /\ req.goal = "c"
    /\ self.graph.segments[1].start = "b"
    /\ self.edges[0] = <<[end |-> 1, h |-> 3], [end |-> 2, h |-> 6]>>
    /\ self.edges[1] = <<[end |-> 2, h |-> 4]>>

\* The query is in or past its search loop.
Searching == pc # "idle" /\ snap.loaded /\ Validate(snap, req) = NoExc

\* Entries for way point i queued so far: those popped and those in open.
Popped(i) == Cardinality({k \in DOMAIN order : order[k][2] = i})
Queued(i) == Popped(i) + Cardinality({k \in DOMAIN open : open[k][2] = i})

\* C13: during a query every way point index, the start included, is queued
\* at most once and popped at most once, and the backpointer of the start
\* stays None.
C13_QueuedAtMostOnce ==
    Searching =>
        /\ \A i \in DOMAIN closed : Queued(i) <= 1 /\ Popped(i) <= 1
        /\ backpath[start] = None

\* backpath leads from way point i to the start in at most k hops, each hop
\* an edge of the adjacency list.
RECURSIVE ChainToStart(_, _)
ChainToStart(i, k) ==
    \/ i = start
    \/ /\ k > 0
       /\ backpath[i] # None
       /\ \E j \in DOMAIN self.edges[backpath[i]] : self.edges[backpath[i]][j].end = i
       /\ ChainToStart(backpath[i], k - 1)

\* C14: when the loop stops at a goal other than the start, the backpointers
\* lead from the goal to the start in at least one and at most n - 1 hops,
\* never through None, and each hop is an edge of the adjacency list.
C14_BackpointersReachStart ==
    (pc = "returned" /\ start # goal) =>
        /\ backpath[goal] # None
        /\ ChainToStart(goal, len(self.points) - 1)

C14_Witness ==
    /\ pc = "returned"
    /\ start # goal
    /\ backpath[goal] # start
    /\ backpath[backpath[goal]] = start

\* C15: when the goal is reachable from the start along directed edges, the
\* frontier is never found empty and NoPathToGoalError is never raised: the
\* loop goes on popping, at most n + 1 entries, until it pops the goal.  So
\* NoPathToGoalError is raised only when the goal is unreachable.
C15_ReachableGoalNeverFails ==
    Searching =>
        /\ Reachable(self.edges, start, goal) =>
              /\ pc # "raised"
              /\ pc = "loop" => open # <<>>
              /\ Len(order) <= len(self.points) + 1
        /\ pc = "raised" => ~Reachable(self.edges, start, goal)
        /\ pc = "returned" => Reachable(self.edges, start, goal)

C15_Witness ==
    /\ pc = "returned"
    /\ Len(order) >= 3
    /\ \E i \in DOMAIN self.edges : Len(self.edges[i]) = 2

\* Networks of the small family with cycles.  The search loop is scheduled
\* until it ends: nothing but its own return or raise stops the while loop
\* of a query.
NextFair ==
    \/ ~planner.loaded /\ \E graph \in CyclicNetworks : LoadNetwork(graph)
    \/ \E r \in RebuildRequests : PlanRoute(r)
    \/ \E r \in RebuildRequests : PlanRouteNotReady(r)
    \/ LoopStep
    \/ Reply

SpecFair == Init /\ [][NextFair]_vars /\ WF_vars(LoopStep)

Ended == pc \in {"returned", "raised"}

LexLeq(a, b) == a[1] < b[1] \/ (a[1] = b[1] /\ a[2] <= b[2])

graph_callback(graph) ==
    /\ viz.raised = ""
    /\ viz' = [viz EXCEPT
                 !.points = WuPointSet(graph.points),
                 !.segment_ids = [u \in {graph.segments[k].id : k \in DOMAIN graph.segments} |->
                                    (CHOOSE k \in DOMAIN graph.segments :
                                        /\ graph.segments[k].id = u
                                        /\ \A j \in DOMAIN graph.segments :
                                              graph.segments[j].id = u => j <= k) - 1],
                 !.graph = graph]
    /\ UNCHANGED <<planner, pc, req, exc, prev, frame>>

\* random.sample(range(n), 2): two different indices, in either order.
sample(n) == {p \in (0..(n - 1)) \X (0..(n - 1)) : p[1] # p[2]}

\* timer_callback(): without a graph it prints and returns.  With a graph of
\* fewer than two way points random.sample raises ValueError.  Otherwise the
\* two way points are drawn, and the logging statement that follows names
\* `sefl`, which is not defined: NameError.  Neither exception is caught, so
\* rclpy.spin() ends; the statements after the logging statement (the plan
\* request, mark_plan) are never run.
timer_callback ==
    /\ viz.raised = ""
    /\ viz.ticks < MaxTicks
    /\ IF viz.graph = NoGraph
       THEN viz' = [viz EXCEPT !.ticks = @ + 1]
       ELSE IF sample(Len(viz.graph.points)) = {}
            THEN viz' = [viz EXCEPT !.ticks = @ + 1, !.raised = "ValueError"]
            ELSE \E idx \in sample(Len(viz.graph.points)) :
                    LET start_uuid == viz.graph.points[idx[1] + 1].uuid
                        goal_uuid == viz.graph.points[idx[2] + 1].uuid
                    IN  viz' = [viz EXCEPT !.ticks = @ + 1, !.raised = "NameError"]
    /\ UNCHANGED <<planner, pc, req, exc, prev, frame>>

\* The visualization node: route networks arrive, the timer fires.
NextViz ==
    \/ \E graph \in GeneralNetworks : graph_callback(graph)
    \/ timer_callback

SpecViz == Init /\ [][NextViz]_vars

\* C18: a timer tick before any route network was received sends no plan
\* request and publishes nothing; a timer tick after one was received sends
\* exactly one plan request, for the stored network id, with a start and a
\* goal that are two different way points of the stored point list.
C18_TickSendsOneRequest ==
    [][viz'.ticks = viz.ticks + 1 =>
          IF viz.graph = NoGraph
          THEN viz'.calls = viz.calls /\ viz'.marks = viz.marks
          ELSE /\ Len(viz'.calls) = Len(viz.calls) + 1
               /\ SubSeq(viz'.calls, 1, Len(viz.calls)) = viz.calls
               /\ LET call == viz'.calls[Len(viz'.calls)]
                      uuids == {viz.graph.points[i].uuid : i \in DOMAIN viz.graph.points}
                  IN  /\ call.network = viz.graph.id
                      /\ call.start \in uuids
                      /\ call.goal \in uuids
                      /\ call.start # call.goal]_vars
====
